---- MODULE Spec2Model ----
(***************************************************************************)
(* Model of src/indexGraphQL.js: the CollibraClient (makeRequest,          *)
(* getCommunities, getAllSubcommunities / findDescendants,                 *)
(* getCommunityByName, fetchAllPages) and the export flow of main.         *)
(*                                                                         *)
(* Spec      one client call against a remote catalog                      *)
(* FairSpec  the same, with the fairness of a single thread of control     *)
(* SpecMain  main: selection, options, single or batch export              *)
(***************************************************************************)
EXTENDS Naturals, Sequences, FiniteSets

VARIABLES
  remote,       \* the remote catalog: the communities it holds, in its order
  op,           \* the client method under way
  pc,           \* its position
  args,         \* its arguments
  trace,        \* every makeRequest so far: params sent, response or error
  allResults,   \* fetchAllPages: accumulator
  offset,       \* fetchAllPages: offset of the next request
  communities,  \* getAllSubcommunities: response.results || []
  stack,        \* getAllSubcommunities: activation records of findDescendants
  outcome,      \* what the method returned or threw
  mpc,          \* main: position
  mCommunities, \* main: communities fetched for the REST flow
  selectedCommunities, \* main: the units to export
  exportOptions,       \* main: answers of configureExportOptions
  results,      \* exportMultipleCommunities: one record per unit so far
  processed,    \* every run of a unit's pipeline: unit index, error raised
  issued,       \* main: the kinds of request sent to the remote so far
  caught,       \* main: the error its catch block received
  exitCode      \* main: the code given to process.exit

clientVars == <<remote, op, pc, args, trace, allResults, offset, communities,
                stack, outcome>>
mainVars == <<mpc, mCommunities, selectedCommunities, exportOptions, results,
              processed, issued, caught, exitCode>>
vars == <<remote, op, pc, args, trace, allResults, offset, communities,
          stack, outcome, mpc, mCommunities, selectedCommunities,
          exportOptions, results, processed, issued, caught, exitCode>>

----------------------------------------------------------------------------
(* Bounds *)

\* The literal 1000 of lines 429, 441, 453, 465, 483, 491, 504 and 551 (the
\* page size), scaled down so that catalogs larger than one page are reached.
PageLimit == 3
\* Most items the remote holds when fetchAllPages walks it.
MaxItems == 7
\* Most communities the remote holds when the hierarchy or a name is resolved.
MaxComms == 4
\* Deepest nesting of findDescendants followed: a forest of n communities nests
\* at most n + 1 calls, so only a cyclic listing is held back by it.
MaxDepth == MaxComms + 1

----------------------------------------------------------------------------
(* Values *)

Errors == {"ETIMEDOUT", "HTTP500"}

\* Names are sequences of characters; F, f, FE, E stand for names such as
\* Finance, finance, Finance EMEA, EMEA.
Names == {<<"F">>, <<"f">>, <<"F", "E">>, <<"E">>}
DefaultName == <<"F">>

NoParent == <<>>
ParentRef(id) == <<[id |-> id]>>

Community(id, name, parent) == [id |-> id, name |-> name, parent |-> parent]

\* JS object spread { ...a, ...b }: b's keys override a's.
Spread(a, b) ==
  [k \in (DOMAIN a) \cup (DOMAIN b) |-> IF k \in DOMAIN b THEN b[k] ELSE a[k]]

EmptyObject == [k \in {} |-> 0]

Min(a, b) == IF a < b THEN a ELSE b

----------------------------------------------------------------------------
(* The remote query service (GET /communities), as the client relies on it: *)
(* name filter per nameMatchMode, then the offset/limit window.             *)

LowerChar(c) == IF c = "F" THEN "f" ELSE IF c = "E" THEN "e" ELSE c
Lower(s) == [i \in 1..Len(s) |-> LowerChar(s[i])]

\* nameMatchMode other than EXACT: case-insensitive, anywhere in the name.
ContainsIgnoreCase(name, q) ==
  \E i \in 1..(Len(name) + 1 - Len(q)) :
     SubSeq(Lower(name), i, i + Len(q) - 1) = Lower(q)

NameMatches(comm, params) ==
  IF "name" \notin DOMAIN params THEN TRUE
  ELSE IF "nameMatchMode" \in DOMAIN params /\ params.nameMatchMode = "EXACT"
       THEN comm.name = params.name
       ELSE ContainsIgnoreCase(comm.name, params.name)

RemoteQuery(items, params) ==
  LET matching == SelectSeq(items, LAMBDA c : NameMatches(c, params))
      first == params.offset + 1
      last == Min(params.offset + params.limit, Len(matching))
  IN [results |-> SubSeq(matching, first, last)]

----------------------------------------------------------------------------
(* CollibraClient *)

\* axios.get against the remote: the response, or a transport failure.
AxiosGet(params) ==
  {[ok |-> TRUE, data |-> RemoteQuery(remote, params)]}
    \cup {[ok |-> FALSE, error |-> e] : e \in Errors}

\* Mutant: the catch block swallows the error and answers an empty response.
MakeRequestCatchSwallow(error) == [threw |-> FALSE, data |-> [results |-> <<>>]]

\* makeRequest's catch block: logs, then rethrows the error it caught.
MakeRequestCatch(error) == [threw |-> TRUE, error |-> error]

\* makeRequest(endpoint, params) on transport outcome t: response.data, or
\* what the catch block does with the error.
MakeRequest(t) ==
  IF t.ok THEN [threw |-> FALSE, data |-> t.data] ELSE MakeRequestCatch(t.error)

Logged(endpoint, params, t) ==
  Append(trace, [endpoint |-> endpoint, params |-> params, response |-> t])

GetCommunitiesParams(params) ==
  Spread([offset |-> 0, limit |-> PageLimit, sortField |-> "NAME",
          sortOrder |-> "ASC", excludeMeta |-> TRUE], params)

Threw(error) == [kind |-> "threw", error |-> error]
Returned(value) == [kind |-> "value", value |-> value]
ReturnedNull == [kind |-> "null"]
Pending == [kind |-> "pending"]

(* fetchAllPages *)

\* Mutant: the spread written the other way round, { offset, limit, ...params }.
MergeParamsCallerWins(params, off, lim) ==
  Spread([offset |-> off, limit |-> lim], params)

\* { ...params, offset, limit }
MergeParams(params, off, lim) == Spread(params, [offset |-> off, limit |-> lim])

\* Mutant: offset advanced by one (a page number taken for an offset).
NextOffsetByOne(off) == off + 1

\* offset += limit
NextOffset(off) == off + PageLimit

\* hasMore = items.length === limit
HasMore(items) == Len(items) = PageLimit

\* One iteration of the while loop; the return follows the last one.
FetchPage ==
  /\ op = "fetchAllPages" /\ pc = "loop"
  /\ LET params == MergeParams(args.params, offset, PageLimit)
     IN \E t \in AxiosGet(params) : LET r == MakeRequest(t) IN
          /\ trace' = Logged(args.endpoint, params, t)
          /\ IF r.threw
             THEN /\ pc' = "threw"
                  /\ outcome' = Threw(r.error)
                  /\ UNCHANGED <<allResults, offset>>
             ELSE LET items == r.data.results
                  IN /\ allResults' = allResults \o items
                     /\ offset' = NextOffset(offset)
                     /\ IF HasMore(items)
                        THEN pc' = "loop" /\ UNCHANGED outcome
                        ELSE pc' = "returned"
                             /\ outcome' = Returned(allResults \o items)
  /\ UNCHANGED <<remote, op, args, communities, stack, mainVars>>

(* getAllSubcommunities *)

Frame(parentId) == [parentId |-> parentId, idx |-> 1, descendants |-> <<>>]

\* comm.parent && comm.parent.id === parentId
IsChild(comm, parentId) ==
  comm.parent # NoParent /\ comm.parent[1].id = parentId

\* Lines 500-509 and the call of line 528: the listing is one getCommunities
\* request; the descent starts on what it returned.
GetAllSubcommunities ==
  /\ op = "getAllSubcommunities" /\ pc = "start"
  /\ LET params == GetCommunitiesParams([limit |-> PageLimit])
     IN \E t \in AxiosGet(params) : LET r == MakeRequest(t) IN
          /\ trace' = Logged("/communities", params, t)
          /\ IF r.threw
             THEN /\ pc' = "threw"
                  /\ outcome' = Threw(r.error)
                  /\ UNCHANGED <<communities, stack>>
             ELSE /\ communities' = r.data.results
                  /\ stack' = <<Frame(args.communityId)>>
                  /\ pc' = "descend"
                  /\ UNCHANGED outcome
  /\ UNCHANGED <<remote, op, args, allResults, offset, mainVars>>

Top == stack[Len(stack)]
Descending == op = "getAllSubcommunities" /\ pc = "descend"

\* The for loop from the frame's position on: the index of the next comm that
\* is a child of parentId, or one past the listing when the loop runs out.
NextChild(frame) ==
  LET children == {i \in frame.idx..Len(communities) :
                     IsChild(communities[i], frame.parentId)}
  IN IF children = {} THEN Len(communities) + 1
     ELSE CHOOSE i \in children : \A j \in children : i <= j

\* Mutant: the child is pushed but findDescendants(comm.id) is not called.
FindDescendantsCallNoRecursion ==
  /\ Descending
  /\ NextChild(Top) <= Len(communities)
  /\ stack' = [stack EXCEPT ![Len(stack)].descendants =
                               Append(@, communities[NextChild(Top)]),
                            ![Len(stack)].idx = NextChild(Top) + 1]
  /\ UNCHANGED <<remote, op, pc, args, trace, allResults, offset, communities,
                 outcome, mainVars>>

\* The loop up to and into its next match: descendants.push(comm), then the
\* call findDescendants(comm.id).
FindDescendantsCall ==
  /\ Descending
  /\ NextChild(Top) <= Len(communities)
  /\ Len(stack) < MaxDepth
  /\ stack' = Append([stack EXCEPT ![Len(stack)].descendants =
                                      Append(@, communities[NextChild(Top)]),
                                   ![Len(stack)].idx = NextChild(Top)],
                     Frame(communities[NextChild(Top)].id))
  /\ UNCHANGED <<remote, op, pc, args, trace, allResults, offset, communities,
                 outcome, mainVars>>

\* Mutant: the children returned by the recursive call are not pushed.
FindDescendantsReturnDropsChildren ==
  /\ Descending
  /\ NextChild(Top) > Len(communities)
  /\ IF Len(stack) = 1
     THEN /\ pc' = "returned"
          /\ outcome' = Returned(Top.descendants)
          /\ stack' = <<>>
     ELSE /\ stack' = [SubSeq(stack, 1, Len(stack) - 1)
                         EXCEPT ![Len(stack) - 1].idx = @ + 1]
          /\ UNCHANGED <<pc, outcome>>
  /\ UNCHANGED <<remote, op, args, trace, allResults, offset, communities, mainVars>>

\* The loop runs out without a further match: return descendants, into
\* descendants.push(...children) of the caller, whose loop goes on, or, from the
\* outermost call, into subcommunities, which getAllSubcommunities returns.
FindDescendantsReturn ==
  /\ Descending
  /\ NextChild(Top) > Len(communities)
  /\ IF Len(stack) = 1
     THEN /\ pc' = "returned"
          /\ outcome' = Returned(Top.descendants)
          /\ stack' = <<>>
     ELSE /\ stack' = [SubSeq(stack, 1, Len(stack) - 1)
                         EXCEPT ![Len(stack) - 1].descendants = @ \o Top.descendants,
                                ![Len(stack) - 1].idx = @ + 1]
          /\ UNCHANGED <<pc, outcome>>
  /\ UNCHANGED <<remote, op, args, trace, allResults, offset, communities, mainVars>>

(* getCommunityByName *)

\* Mutant: nameMatchMode is not sent, so the remote's default mode applies.
ByNameParamsNoMode(name) == GetCommunitiesParams([name |-> name])

\* getCommunities({ name, nameMatchMode: 'EXACT' })
ByNameParams(name) == GetCommunitiesParams([name |-> name, nameMatchMode |-> "EXACT"])

\* communities.length === 0 ? null : communities[0]
FirstOrNull(found) == IF Len(found) = 0 THEN ReturnedNull ELSE Returned(found[1])

GetCommunityByName ==
  /\ op = "getCommunityByName" /\ pc = "start"
  /\ LET params == ByNameParams(args.name)
     IN \E t \in AxiosGet(params) : LET r == MakeRequest(t) IN
          /\ trace' = Logged("/communities", params, t)
          /\ IF r.threw
             THEN pc' = "threw" /\ outcome' = Threw(r.error)
             ELSE pc' = "returned" /\ outcome' = FirstOrNull(r.data.results)
  /\ UNCHANGED <<remote, op, args, allResults, offset, communities, stack, mainVars>>

----------------------------------------------------------------------------
(* Catalogs and calls *)

FlatCatalog(n) == [i \in 1..n |-> Community(i, DefaultName, NoParent)]

TreeCatalog(n, p) ==
  [i \in 1..n |-> Community(i, DefaultName,
                            IF p[i] = 0 THEN NoParent ELSE ParentRef(p[i]))]

NamedCatalog(n, nm) == [i \in 1..n |-> Community(i, nm[i], NoParent)]

\* Filters a caller may pass to fetchAllPages, some naming offset and limit.
CallerParams ==
  {EmptyObject, [sortField |-> "NAME"], [offset |-> 5], [limit |-> 1],
   [offset |-> 1, limit |-> 2]}

MainIdle ==
  /\ mpc = "idle"
  /\ mCommunities = <<>>
  /\ selectedCommunities = <<>>
  /\ exportOptions = EmptyObject
  /\ results = <<>>
  /\ processed = <<>>
  /\ issued = {}
  /\ caught = "none"
  /\ exitCode = "none"

ClientFresh ==
  /\ trace = <<>>
  /\ allResults = <<>>
  /\ offset = 0
  /\ communities = <<>>
  /\ stack = <<>>
  /\ outcome = Pending

InitFetchAllPages ==
  /\ op = "fetchAllPages" /\ pc = "loop"
  /\ \E n \in 0..MaxItems : remote = FlatCatalog(n)
  /\ \E p \in CallerParams : args = [endpoint |-> "/communities", params |-> p]

InitGetAllSubcommunities ==
  /\ op = "getAllSubcommunities" /\ pc = "start"
  /\ \E n \in 0..MaxComms : \E p \in [1..n -> 0..n] : remote = TreeCatalog(n, p)
  /\ \E id \in 1..(MaxComms + 1) : args = [communityId |-> id]

InitGetCommunityByName ==
  /\ op = "getCommunityByName" /\ pc = "start"
  /\ \E n \in 0..MaxComms : \E nm \in [1..n -> Names] : remote = NamedCatalog(n, nm)
  /\ \E name \in Names : args = [name |-> name]

Init ==
  /\ ClientFresh
  /\ MainIdle
  /\ \/ InitFetchAllPages
     \/ InitGetAllSubcommunities
     \/ InitGetCommunityByName

Next ==
  \/ FetchPage
  \/ GetAllSubcommunities
  \/ FindDescendantsCall
  \/ FindDescendantsReturn
  \/ GetCommunityByName

Spec == Init /\ [][Next]_vars

\* One thread of control: a call that can take its next step takes it.
FairSpec == Spec /\ WF_vars(Next)

----------------------------------------------------------------------------
(* main *)

UnitNames == {<<"F">>, <<"E">>}

\* A flag of the options as JS reads it: undefined is falsy.
Flag(options, k) == k \in DOMAIN options /\ options[k]

AllAnswers ==
  [includeAssets : BOOLEAN, includeAttributes : BOOLEAN,
   includeRelations : BOOLEAN, includeResponsibilities : BOOLEAN]

\* Mutant: the three follow-up questions lose their `when` and are always asked.
ConfigureExportOptionsAsksAll(useGraphQL, answers) ==
  Spread(answers, [outputDir |-> "./exports"])

\* configureExportOptions: inquirer records an answer for a question only when
\* its `when` holds; answers is what the user replies to each question asked.
ConfigureExportOptions(useGraphQL, answers) ==
  IF answers.includeAssets
  THEN Spread(answers, [outputDir |-> "./exports"])
  ELSE [includeAssets |-> FALSE, outputDir |-> "./exports"]

\* Mutant: the single-unit test written as length <= 2.
IsSingleUnitUpToTwo(selected) == Len(selected) <= 2

\* Mutant: the single-unit test never holds.
IsSingleUnitNever(selected) == Len(selected) < 1

\* selectedCommunities.length === 1
IsSingleUnit(selected) == Len(selected) = 1

Exit(code) == mpc' = "exited" /\ exitCode' = code

\* The catch block of main: reports the error, process.exit(1).
MainCatch(error) == Exit("1") /\ caught' = error

\* displayWelcome, createConfig, loadConfig, authenticate.
MainAuthenticate ==
  /\ mpc = "auth"
  /\ \E how \in {"ok", "denied", "noconfig"} :
       CASE how = "ok" -> mpc' = "method" /\ UNCHANGED <<caught, exitCode>>
         [] how = "denied" -> Exit("1") /\ UNCHANGED caught
         [] how = "noconfig" -> MainCatch("config.json not found")
  /\ UNCHANGED <<clientVars, mCommunities, selectedCommunities, exportOptions,
                 results, processed, issued>>

MainChooseMethod ==
  /\ mpc = "method"
  /\ \E exportMethod \in {"graphql", "rest", "exit"} :
       CASE exportMethod = "exit" -> Exit("0")
         [] exportMethod = "graphql" -> mpc' = "gqlTarget" /\ UNCHANGED exitCode
         [] exportMethod = "rest" -> mpc' = "fetch" /\ UNCHANGED exitCode
  /\ UNCHANGED <<clientVars, mCommunities, selectedCommunities, exportOptions,
                 results, processed, issued, caught>>

\* exportType and targetName; back restarts main.
MainGraphQLTarget ==
  /\ mpc = "gqlTarget"
  /\ \E exportType \in {"community", "domain", "back"} :
       mpc' = IF exportType = "back" THEN "auth" ELSE "gqlOptions"
  /\ UNCHANGED <<clientVars, mCommunities, selectedCommunities, exportOptions,
                 results, processed, issued, caught, exitCode>>

MainGraphQLConfigure ==
  /\ mpc = "gqlOptions"
  /\ \E answers \in AllAnswers : exportOptions' = ConfigureExportOptions(TRUE, answers)
  /\ \E confirm \in BOOLEAN :
       IF confirm THEN mpc' = "gqlExport" /\ UNCHANGED exitCode ELSE Exit("0")
  /\ UNCHANGED <<clientVars, mCommunities, selectedCommunities, results,
                 processed, issued, caught>>

\* exportCommunityByName / exportDomainByName of the GraphQL exporter: it
\* returns or it throws.
MainGraphQLExport ==
  /\ mpc = "gqlExport"
  /\ issued' = issued \cup {"graphql"}
  /\ \/ mpc' = "done" /\ UNCHANGED <<caught, exitCode>>
     \/ \E e \in Errors : MainCatch(e)
  /\ UNCHANGED <<clientVars, mCommunities, selectedCommunities, exportOptions,
                 results, processed>>

\* client.getCommunities(), communitiesResponse.results || [], the empty case.
MainFetchCommunities ==
  /\ mpc = "fetch"
  /\ issued' = issued \cup {"communities"}
  /\ LET params == GetCommunitiesParams(EmptyObject)
     IN \E t \in AxiosGet(params) : LET r == MakeRequest(t) IN
          /\ trace' = Logged("/communities", params, t)
          /\ IF r.threw
             THEN MainCatch(r.error) /\ UNCHANGED mCommunities
             ELSE /\ mCommunities' = r.data.results
                  /\ UNCHANGED caught
                  /\ IF Len(r.data.results) = 0
                     THEN Exit("0")
                     ELSE mpc' = "menu" /\ UNCHANGED exitCode
  /\ UNCHANGED <<remote, op, pc, args, allResults, offset, communities, stack,
                 outcome, selectedCommunities, exportOptions, results, processed>>

\* selectedIndices.map(index => communities[index]), indices in list order.
Picked(indices) ==
  SelectSeq([i \in 1..Len(mCommunities) |-> [index |-> i, comm |-> mCommunities[i]]],
            LAMBDA x : x.index \in indices)

SelectCommunities(indices) == [k \in 1..Len(Picked(indices)) |-> Picked(indices)[k].comm]

MainMenu ==
  /\ mpc = "menu"
  /\ \E action \in {"select", "all", "exit"} :
       CASE action = "exit" -> Exit("0") /\ UNCHANGED selectedCommunities
         [] action = "all" ->
              /\ selectedCommunities' = mCommunities
              /\ mpc' = "options" /\ UNCHANGED exitCode
         [] action = "select" ->
              \E indices \in SUBSET (1..Len(mCommunities)) :
                 /\ selectedCommunities' = SelectCommunities(indices)
                 /\ IF indices = {}
                    THEN Exit("0")
                    ELSE mpc' = "options" /\ UNCHANGED exitCode
  /\ UNCHANGED <<clientVars, mCommunities, exportOptions, results, processed,
                 issued, caught>>

MainConfigure ==
  /\ mpc = "options"
  /\ \E answers \in AllAnswers : exportOptions' = ConfigureExportOptions(FALSE, answers)
  /\ \E confirm \in BOOLEAN :
       IF confirm THEN mpc' = "export" /\ UNCHANGED exitCode ELSE Exit("0")
  /\ UNCHANGED <<clientVars, mCommunities, selectedCommunities, results,
                 processed, issued, caught>>

(* CollibraExporter: exportCommunity and exportMultipleCommunities *)

\* The pipeline of one unit under the options: the domains, then, when assets
\* are included, the assets and the facets whose flag is set, then the sink.
Stages(options) ==
  <<"domains">>
    \o (IF Flag(options, "includeAssets")
        THEN <<"assets">>
               \o (IF Flag(options, "includeAttributes") THEN <<"attributes">> ELSE <<>>)
               \o (IF Flag(options, "includeRelations") THEN <<"relations">> ELSE <<>>)
               \o (IF Flag(options, "includeResponsibilities")
                   THEN <<"responsibilities">> ELSE <<>>)
        ELSE <<>>)
    \o <<"write">>

Requests(stages) == {stages[k] : k \in 1..Len(stages)} \ {"write"}

\* exportCommunity(unit, options): every stage in turn; the first failure is
\* raised to the caller, the later stages are not run.
ExportCommunity(options) ==
  LET all == Stages(options)
  IN {[sent |-> Requests(all), error |-> "none"]}
       \cup {[sent |-> Requests(SubSeq(all, 1, k)), error |-> e] :
               k \in 1..Len(all), e \in Errors}

Success(unit) == [community |-> unit.name, success |-> TRUE]
Failure(unit, error) == [community |-> unit.name, success |-> FALSE, error |-> error]

\* exportMultipleCommunities, one unit: the pipeline inside the per-unit
\* try/catch; the result is recorded and the loop goes on.
ExportNextUnit(i, run) ==
  /\ processed' = Append(processed, [unit |-> i, error |-> run.error])
  /\ issued' = issued \cup run.sent
  /\ results' = Append(results,
                       IF run.error = "none"
                       THEN Success(selectedCommunities[i])
                       ELSE Failure(selectedCommunities[i], run.error))

\* if (selectedCommunities.length === 1) await exporter.exportCommunity(...)
MainExportSingle ==
  /\ mpc = "export"
  /\ IsSingleUnit(selectedCommunities)
  /\ \E run \in ExportCommunity(exportOptions) :
       /\ processed' = Append(processed, [unit |-> 1, error |-> run.error])
       /\ issued' = issued \cup run.sent
       /\ IF run.error = "none"
          THEN mpc' = "done" /\ UNCHANGED <<caught, exitCode>>
          ELSE MainCatch(run.error)
  /\ UNCHANGED <<clientVars, mCommunities, selectedCommunities, exportOptions, results>>

\* else: exporter.exportMultipleCommunities(selectedCommunities, exportOptions)
MainExportMultiple ==
  /\ mpc = "export"
  /\ ~IsSingleUnit(selectedCommunities)
  /\ Len(results) < Len(selectedCommunities)
  /\ \E run \in ExportCommunity(exportOptions) : ExportNextUnit(Len(results) + 1, run)
  /\ UNCHANGED <<clientVars, mpc, mCommunities, selectedCommunities, exportOptions,
                 caught, exitCode>>

\* The results come back; the summary is printed; All done.
MainSummary ==
  /\ mpc = "export"
  /\ ~IsSingleUnit(selectedCommunities)
  /\ Len(results) = Len(selectedCommunities)
  /\ mpc' = "done"
  /\ UNCHANGED <<clientVars, mCommunities, selectedCommunities, exportOptions,
                 results, processed, issued, caught, exitCode>>

InitMain ==
  /\ ClientFresh
  /\ op = "main" /\ pc = "idle" /\ args = EmptyObject
  /\ \E n \in 0..(PageLimit + 1) : \E nm \in [1..n -> UnitNames] :
        remote = NamedCatalog(n, nm)
  /\ mpc = "auth"
  /\ mCommunities = <<>>
  /\ selectedCommunities = <<>>
  /\ exportOptions = EmptyObject
  /\ results = <<>>
  /\ processed = <<>>
  /\ issued = {}
  /\ caught = "none"
  /\ exitCode = "none"

NextMain ==
  \/ MainAuthenticate
  \/ MainChooseMethod
  \/ MainGraphQLTarget
  \/ MainGraphQLConfigure
  \/ MainGraphQLExport
  \/ MainFetchCommunities
  \/ MainMenu
  \/ MainConfigure
  \/ MainExportSingle
  \/ MainExportMultiple
  \/ MainSummary

SpecMain == InitMain /\ [][NextMain]_vars

----------------------------------------------------------------------------
(* Properties of the client *)

Fetching == op = "fetchAllPages"
Resolving == op = "getAllSubcommunities"
Looking == op = "getCommunityByName"

\* C1: fetchAllPages returns exactly the N items the remote holds, each once,
\* in the remote's order, for every N (0 and multiples of the page size too).
PaginationCompleteness ==
  (Fetching /\ pc = "returned") => outcome = Returned(remote)

\* C1 witness: a fetch has returned from a remote holding exactly two full pages.
PaginationCompletenessWitness ==
  /\ Fetching /\ pc = "returned"
  /\ Len(remote) = 2 * PageLimit
  /\ outcome.value = remote

PageOf(k) == trace[k].response.data.results
FullPage(k) == trace[k].response.ok /\ Len(PageOf(k)) = PageLimit
ShortPage(k) == trace[k].response.ok /\ Len(PageOf(k)) < PageLimit

\* C7: the requests go out at offsets 0, P, 2P, ... with limit P whatever the
\* caller's filters say; every page before the last one is full; a short page
\* ends the fetch at once; N items take floor(N/P)+1 requests.
PaginationRequestSequence ==
  Fetching =>
    /\ \A k \in 1..Len(trace) :
         /\ trace[k].params.offset = (k - 1) * PageLimit
         /\ trace[k].params.limit = PageLimit
         /\ k < Len(trace) => FullPage(k)
    /\ (trace # <<>> /\ ShortPage(Len(trace))) => pc = "returned"
    /\ pc = "returned" =>
         /\ ShortPage(Len(trace))
         /\ Len(trace) = (Len(remote) \div PageLimit) + 1

\* C7 witness: a fetch whose caller passed its own offset and limit has returned
\* after more than one request.
PaginationRequestSequenceWitness ==
  /\ Fetching /\ pc = "returned"
  /\ {"offset", "limit"} \subseteq DOMAIN args.params
  /\ Len(trace) > 1

\* C8: a failed page request ends the fetch: it is the last request (no retry,
\* no later page), the fetch throws that very error, and returns no list.
PaginationFailure ==
  Fetching =>
    \A k \in 1..Len(trace) :
       ~trace[k].response.ok =>
          /\ k = Len(trace)
          /\ pc = "threw"
          /\ outcome = Threw(trace[k].response.error)

\* C8 witness: the request failed after a full page had been accumulated.
PaginationFailureWitness ==
  /\ Fetching /\ pc = "threw"
  /\ Len(trace) > 1
  /\ allResults # <<>>
  /\ ~trace[Len(trace)].response.ok

(* Reachability by parent links, as a fixpoint over the listing *)

HasParent(listing, i) == listing[i].parent # NoParent
ParentIdOf(listing, i) == listing[i].parent[1].id

ChildrenOf(listing, parentIds) ==
  {i \in 1..Len(listing) :
     HasParent(listing, i) /\ ParentIdOf(listing, i) \in parentIds}

RECURSIVE Closure(_, _, _)
\* found, and the communities at most k parent links below them.
Closure(listing, found, k) ==
  LET more == found \cup ChildrenOf(listing, {listing[j].id : j \in found})
  IN IF k = 0 \/ more = found THEN found ELSE Closure(listing, more, k - 1)

\* Indices of the communities reachable from root by parent links.
Reachable(listing, root) ==
  Closure(listing, ChildrenOf(listing, {root}), Len(listing))

UniqueIds(listing) ==
  \A i, j \in 1..Len(listing) : listing[i].id = listing[j].id => i = j

\* The root identifier id is its own descendant.
OnCycle(listing, id) ==
  \E i \in Reachable(listing, id) : listing[i].id = id

\* The communities whose chain of parents ends: at a community without parent
\* or at an identifier the listing does not hold.
Grounded(listing) ==
  Closure(listing,
          {i \in 1..Len(listing) :
             \/ ~HasParent(listing, i)
             \/ \A j \in 1..Len(listing) : listing[j].id # ParentIdOf(listing, i)},
          Len(listing))

\* Some chain of parents never ends: it runs into a cycle of parent links.
HasCycle(listing) == Grounded(listing) # 1..Len(listing)

IsForest(listing) == UniqueIds(listing) /\ ~HasCycle(listing)

Range(seq) == {seq[k] : k \in 1..Len(seq)}

\* findDescendants(communityId) has just been called on the listing.
Entered == Resolving /\ pc = "descend" /\ stack = <<Frame(args.communityId)>>

ClosureOfForest ==
  (Resolving /\ pc = "returned" /\ IsForest(communities)) =>
     LET out == outcome.value
         want == Reachable(communities, args.communityId)
     IN /\ Range(out) = {communities[i] : i \in want}
        /\ Len(out) = Cardinality(want)
        /\ \A k, j \in 1..Len(out) :
             (HasParent(out, k) /\ out[j].id = ParentIdOf(out, k)) => j < k

\* C4: on a forest-shaped listing the descent terminates and returns exactly
\* the communities reachable from the root by parent links, each once, none
\* before its parent.
HierarchyClosure ==
  /\ []ClosureOfForest
  /\ (Entered /\ IsForest(communities)) ~> (pc = "returned")

\* C4 witness: a chain root > a > b > c was resolved from a listing that lists
\* a child before its parent.
HierarchyClosureWitness ==
  /\ Resolving /\ pc = "returned" /\ IsForest(communities)
  /\ Len(outcome.value) = PageLimit
  /\ \E i, j \in 1..Len(communities) :
        /\ i < j
        /\ HasParent(communities, i)
        /\ ParentIdOf(communities, i) = communities[j].id
        /\ communities[i] \in Range(outcome.value)
        /\ communities[j] \in Range(outcome.value)

Listed == Resolving /\ pc \in {"descend", "returned"}

\* C9: the listing the descent scans holds every community of the remote, also
\* when the remote holds more than one page of them.
CompleteListing ==
  /\ Listed => \A i \in 1..Len(remote) : remote[i] \in Range(communities)
  /\ (Resolving /\ pc = "returned" /\ IsForest(remote)) =>
        \A i \in Reachable(remote, args.communityId) :
           remote[i] \in Range(outcome.value)

\* A descendant of the root that the remote holds beyond the first page is
\* missing from the result.
MissedDescendant ==
  /\ Resolving /\ pc = "returned" /\ IsForest(remote)
  /\ \E i \in Reachable(remote, args.communityId) :
        i > PageLimit /\ remote[i] \notin Range(outcome.value)

\* C10 as stated: whenever the listing has a cycle of parent links the descent
\* never returns, whatever the root.
CycleDivergesForEveryRoot ==
  (Listed /\ HasCycle(communities)) => pc # "returned"

\* C10 amended: when the root lies on a cycle of parent links the descent never
\* returns and nothing is signalled; the recursion only deepens.
CycleThroughRootDiverges ==
  (Listed /\ UniqueIds(communities) /\ OnCycle(communities, args.communityId)) =>
     /\ pc = "descend"
     /\ outcome = Pending
     /\ stack # <<>>

\* C10 witness: the root is on a cycle and the recursion is MaxDepth deep.
CycleThroughRootDivergesWitness ==
  /\ Listed /\ OnCycle(communities, args.communityId)
  /\ Len(stack) = MaxDepth

ExactMatches == SelectSeq(remote, LAMBDA c : c.name = args.name)

\* C5: the lookup returns the first community whose name equals the given name
\* exactly, case included, and null when none does.
ExactMatchLookup ==
  (Looking /\ pc = "returned") =>
     IF ExactMatches = <<>> THEN outcome = ReturnedNull
     ELSE outcome = Returned(ExactMatches[1])

\* C5 witness: null was returned although a community matches the name partially
\* or up to case.
ExactMatchLookupWitness ==
  /\ Looking /\ pc = "returned"
  /\ outcome = ReturnedNull
  /\ \E i \in 1..Len(remote) : ContainsIgnoreCase(remote[i].name, args.name)

\* The first of several exact matches was returned, past a partial match.
ExactMatchLookupFirst ==
  /\ Looking /\ pc = "returned"
  /\ Len(ExactMatches) > 1
  /\ remote[1].name # args.name
  /\ outcome = Returned(ExactMatches[1])

----------------------------------------------------------------------------
(* Properties of main and the export *)

Exporting == mpc \in {"export", "done"} /\ "communities" \in issued
Batch == Exporting /\ Len(selectedCommunities) > 1

ResultOf(k) ==
  IF processed[k].error = "none"
  THEN Success(selectedCommunities[k])
  ELSE Failure(selectedCommunities[k], processed[k].error)

\* C2: a batch of more than one unit runs the units one at a time in input
\* order, each once, and ends with one result per unit in input order: Success
\* where the pipeline did not raise, Failure with the unit's name and the error
\* where it did; a failure never ends the batch.
FailureIsolation ==
  Batch =>
    /\ Len(results) = Len(processed)
    /\ Len(results) <= Len(selectedCommunities)
    /\ \A k \in 1..Len(processed) :
         processed[k].unit = k /\ results[k] = ResultOf(k)
    /\ caught = "none" /\ exitCode = "none"
    /\ mpc = "done" => Len(results) = Len(selectedCommunities)

\* C2 witness: three units, the second raised, the first and the third, which
\* bear the same name, succeeded.
FailureIsolationWitness ==
  /\ Batch /\ mpc = "done"
  /\ Len(results) = 3
  /\ results[1].success /\ ~results[2].success /\ results[3].success
  /\ results[1].community = results[3].community
  /\ results[2].error \in Errors

Single == Len(selectedCommunities) = 1 /\ mpc \in {"export", "done", "exited"}
           /\ exportOptions # EmptyObject

\* C3: with exactly one unit selected the unit is exported by exportCommunity
\* alone and a failure it raises reaches main's catch as it was raised, with no
\* result recorded; a Failure result is recorded only for more than one unit.
SingleUnitPropagation ==
  /\ Single =>
       /\ results = <<>>
       /\ Len(processed) <= 1
       /\ \A k \in 1..Len(processed) :
            IF processed[k].error = "none"
            THEN mpc = "done" /\ caught = "none"
            ELSE mpc = "exited" /\ exitCode = "1" /\ caught = processed[k].error
  /\ \A k \in 1..Len(results) :
       ~results[k].success => Len(selectedCommunities) > 1

\* C3 witness: the one selected unit raised and main exited with that error.
SingleUnitPropagationWitness ==
  /\ Single /\ mpc = "exited"
  /\ Len(processed) = 1
  /\ processed[1].error \in Errors
  /\ caught = processed[1].error

Enrichment == {"attributes", "relations", "responsibilities"}

Configured == exportOptions # EmptyObject

====
